---- MODULE Spec2Model ----
(***************************************************************************)
(* A model of tournament.py: the Swiss-system tournament kept in the       *)
(* tables player, entrant and match, and the operations report_match,      *)
(* report_match_bye, rank_by_opponent_match_wins and swiss_pairings.       *)
(*                                                                         *)
(* Tables.  player is kept as the two columns wins and matches, functions  *)
(* of the player id (ids are the serial 1..n, names are fixed at           *)
(* registration).  entrant is a set of rows.  match is kept as a bag of    *)
(* id-groups: one element per match id, the set of the rows that share     *)
(* that id.  The program never reads the value of a match id except to     *)
(* join the rows of one match (player_opponents), so the bag holds         *)
(* everything the queries can see; the next serial id is the number of     *)
(* groups plus one.                                                        *)
(*                                                                         *)
(* Two grains.  Spec and SpecEngine take each call as one step (calls that *)
(* run to their end, one caller at a time).  SpecSteps takes report_match  *)
(* and report_match_bye one run_query at a time: every run_query opens its *)
(* own connection and commits when it leaves it, and a call may end        *)
(* between two of them; pc holds the call in progress and its next         *)
(* statement.                                                              *)
(***************************************************************************)
EXTENDS Integers, Sequences, FiniteSets, Bags, TLC

VARIABLES wins, matches, entrant, match, sp, pc

vars == <<wins, matches, entrant, match, sp, pc>>

\* result kinds of a match row
WIN == 1
LOSS == 2
TIE == 3
BYE == 4

\* the largest number of registered players, and of rows of the match table
MaxPlayers == 4
MaxRows == 6
\* the largest number of rows of the match table in SpecSteps
MaxStepRows == 3
\* the largest number of registered players in SpecTwo
MaxTwoPlayers == 2

\* the tournaments of the database that have entrants (entrants are
\* registered before the first match and never removed)
Tournaments == {x.tournament_id : x \in entrant}

\* the names players are registered under, by player id
Names ==
    <<"Twilight Sparkle", "Fluttershy", "Applejack", "Pinkie Pie",
      "Brandy Ruby", "Bruno Walton", "Boots O'Neal", "Cathy Burton">>

\* the registered players: the ids of the rows of table player
Players == DOMAIN wins

\* no swiss_pairings call has returned since the last write
NoCall == [op |-> "none"]

\* no call is in progress
Idle == [op |-> "idle"]

(***************************************************************************)
(* Sequence helpers of the Python list operations used below.              *)
(***************************************************************************)
\* lst.pop(i) leaves lst without its i-th element (1-based here)
pop(lst, i) == [k \in 1..(Len(lst) - 1) |-> IF k < i THEN lst[k] ELSE lst[k + 1]]

\* the number of rows of the match table
RECURSIVE row_count(_)
row_count(m) ==
    IF BagToSet(m) = {} THEN 0
    ELSE LET g == CHOOSE x \in BagToSet(m) : TRUE
         IN  CopiesIn(g, m) * Cardinality(g)
             + row_count([x \in BagToSet(m) \ {g} |-> m[x]])

(***************************************************************************)
(* Queries.  Each is a SELECT over the tables it is given.                 *)
(***************************************************************************)
\* SELECT id, name, wins, matches FROM player p, entrant e WHERE ...
\* ORDER BY wins DESC: every order of the entrants' rows the store may
\* return, ties in wins being in any order.
standing_of(p) == <<p, Names[p], wins[p], matches[p]>>

entrants_of(t) == {e.player_id : e \in {x \in entrant : x.tournament_id = t}}

\* the orders of the players ids in which wins never increases: the next
\* player is any of those with the most wins among the ones left
RECURSIVE orders_by_wins(_)
orders_by_wins(ids) ==
    IF ids = {} THEN {<<>>}
    ELSE UNION {{<<p>> \o rest : rest \in orders_by_wins(ids \ {p})} :
                    p \in {x \in ids : \A y \in ids : wins[x] >= wins[y]}}

player_standings_by_tournament(t) ==
    {[i \in 1..Len(order) |-> standing_of(order[i])] :
        order \in orders_by_wins(entrants_of(t))}

\* the opponents a player has played in a tournament: the other players of
\* the rows that share a match id with a row of the player in the tournament.
\* The callers only test the result for emptiness and membership, so the
\* list of ids is kept as their set.
player_opponents(m, player, t) ==
    LET ids == {g \in BagToSet(m) :
                    \E r \in g : r.player_id = player /\ r.tournament_id = t}
    IN  {r.player_id : r \in {x \in UNION ids : x.player_id # player}}

RECURSIVE sum_wins(_, _)
sum_wins(w, ids) ==
    IF ids = {} THEN 0
    ELSE LET p == CHOOSE x \in ids : TRUE
         IN  w[p] + sum_wins(w, ids \ {p})

\* SELECT sum(wins) FROM player WHERE id IN (opponents); 0 without opponents
player_opponents_match_wins(m, w, player, t) ==
    LET opponents == player_opponents(m, player, t)
    IN  IF Cardinality(opponents) = 0 THEN 0
        ELSE sum_wins(w, opponents \cap DOMAIN w)

\* SELECT bye FROM entrant WHERE player_id = %s AND tournament_id = %s
player_has_received_bye(e, player, t) ==
    (CHOOSE x \in e : x.player_id = player /\ x.tournament_id = t).bye

(***************************************************************************)
(* Writes.                                                                 *)
(***************************************************************************)
\* UPDATE player SET wins = wins + 1 WHERE id = %s
update_match_wins(w, player) ==
    [p \in DOMAIN w |-> IF p = player THEN w[p] + 1 ELSE w[p]]

\* update_matches_played without its WHERE clause: every player of the table
update_matches_played_everyone(mp, players) ==
    [p \in DOMAIN mp |-> mp[p] + 1]

\* UPDATE player SET matches = matches + 1 WHERE id IN (players)
update_matches_played(mp, players) ==
    [p \in DOMAIN mp |-> IF p \in players THEN mp[p] + 1 ELSE mp[p]]

match_row(player, t, result_type) ==
    [player_id |-> player, tournament_id |-> t, result_id |-> result_type]

\* the two INSERTs of report_match: a row for the winner under a new id and
\* a row for the loser under the same id
insert_match(m, winner, loser, t, tie) ==
    m (+) SetToBag({{match_row(winner, t, IF tie THEN TIE ELSE WIN),
                     match_row(loser, t, IF tie THEN TIE ELSE LOSS)}})

\* the INSERT of report_match_bye: one BYE row under a new id
insert_bye(m, player, t) == m (+) SetToBag({{match_row(player, t, BYE)}})

\* UPDATE entrant SET bye = TRUE WHERE player_id = %s AND tournament_id = %s
set_bye(e, player, t) ==
    {IF x.player_id = player /\ x.tournament_id = t
        THEN [x EXCEPT !.bye = TRUE] ELSE x : x \in e}

\* report_match without "if tie: update_match_wins(loser)"
report_match_winner_only(winner, loser, t, tie) ==
    /\ match' = insert_match(match, winner, loser, t, tie)
    /\ matches' = update_matches_played(matches, {winner, loser})
    /\ wins' = update_match_wins(wins, winner)
    /\ UNCHANGED entrant

report_match(winner, loser, t, tie) ==
    /\ match' = insert_match(match, winner, loser, t, tie)
    /\ matches' = update_matches_played(matches, {winner, loser})
    /\ wins' = IF tie
                  THEN update_match_wins(update_match_wins(wins, winner), loser)
                  ELSE update_match_wins(wins, winner)
    /\ UNCHANGED entrant

\* report_match_bye without update_match_wins(player)
report_match_bye_no_win(player, t) ==
    /\ entrant' = set_bye(entrant, player, t)
    /\ match' = insert_bye(match, player, t)
    /\ matches' = update_matches_played(matches, {player})
    /\ UNCHANGED wins

report_match_bye(player, t) ==
    /\ entrant' = set_bye(entrant, player, t)
    /\ match' = insert_bye(match, player, t)
    /\ matches' = update_matches_played(matches, {player})
    /\ wins' = update_match_wins(wins, player)

(***************************************************************************)
(* rank_by_opponent_match_wins: sorted(standings, cmp=omw_sort).  The sort *)
(* is the list sort of the Python 2 runtime the program is written for:    *)
(* x sorts before y when cmp(x, y) < 0; a list shorter than 64 elements is *)
(* one run (count_run, reversed when strictly descending) that binary      *)
(* insertion extends to the whole list.                                    *)
(***************************************************************************)
\* omw_sort with the comparison of the opponent match wins turned round
omw_sort_less(player1, player2, t) ==
    IF player1[3] = player2[3]
          /\ player_opponents_match_wins(match, wins, player1[1], t)
                < player_opponents_match_wins(match, wins, player2[1], t)
       THEN -1
       ELSE 1

omw_sort(player1, player2, t) ==
    IF player1[3] = player2[3]
          /\ player_opponents_match_wins(match, wins, player1[1], t)
                > player_opponents_match_wins(match, wins, player2[1], t)
       THEN -1
       ELSE 1

islt(x, y, t) == omw_sort(x, y, t) < 0

\* the loops of count_run: the length of the run that starts the list, k
\* being the position compared with its predecessor
RECURSIVE run_end(_, _, _, _)
run_end(lst, k, descending, t) ==
    IF k > Len(lst) THEN Len(lst)
    ELSE IF islt(lst[k], lst[k - 1], t) = descending
            THEN run_end(lst, k + 1, descending, t)
            ELSE k - 1

count_run(lst, t) ==
    LET descending == islt(lst[2], lst[1], t)
    IN  [n |-> run_end(lst, 3, descending, t), descending |-> descending]

reverse_slice(lst, n) ==
    [k \in 1..Len(lst) |-> IF k <= n THEN lst[n + 1 - k] ELSE lst[k]]

\* the do-while of binarysort: where pivot belongs in lst[l..r-1]
RECURSIVE insertion_point(_, _, _, _, _)
insertion_point(lst, pivot, l, r, t) ==
    IF l >= r THEN l
    ELSE IF islt(pivot, lst[l + ((r - l) \div 2)], t)
            THEN insertion_point(lst, pivot, l, l + ((r - l) \div 2), t)
            ELSE insertion_point(lst, pivot, l + ((r - l) \div 2) + 1, r, t)

\* binarysort: lst[1..start-1] is sorted, insert lst[start], lst[start+1], ...
RECURSIVE binarysort(_, _, _)
binarysort(lst, start, t) ==
    IF start > Len(lst) THEN lst
    ELSE LET pivot == lst[start]
             l == insertion_point(lst, pivot, 1, start, t)
             slid == [k \in 1..Len(lst) |->
                        IF k < l \/ k > start THEN lst[k]
                        ELSE IF k = l THEN pivot
                        ELSE lst[k - 1]]
         IN  binarysort(slid, start + 1, t)

rank_by_opponent_match_wins(standings, t) ==
    IF Len(standings) < 2 THEN standings
    ELSE LET run == count_run(standings, t)
             lst == IF run.descending THEN reverse_slice(standings, run.n)
                                      ELSE standings
         IN  binarysort(lst, run.n + 1, t)

(***************************************************************************)
(* swiss_pairings                                                          *)
(***************************************************************************)
\* the bye loop without the test of player_has_received_bye
bye_index_unchecked(standings, i, t) == i

\* the bye loop over standings instead of reversed(standings)
RECURSIVE first_without_bye(_, _, _)
first_without_bye(standings, k, t) ==
    IF k > Len(standings) THEN 0
    ELSE IF ~player_has_received_bye(entrant, standings[k][1], t) THEN k
    ELSE first_without_bye(standings, k + 1, t)

bye_index_forward(standings, i, t) == first_without_bye(standings, 1, t)

\* for standing in reversed(standings): the position of the last player of
\* the list that has not received a bye; 0 when every player has
RECURSIVE bye_index(_, _, _)
bye_index(standings, i, t) ==
    IF i = 0 THEN 0
    ELSE IF ~player_has_received_bye(entrant, standings[i][1], t) THEN i
    ELSE bye_index(standings, i - 1, t)

\* for index, opponent in enumerate(iter(standings)): the position of the
\* first opponent not in opponents_played; 0 when the loop ends without one
RECURSIVE first_unplayed(_, _, _)
first_unplayed(standings, index, opponents_played) ==
    IF index > Len(standings) THEN 0
    ELSE IF standings[index][1] \notin opponents_played THEN index
    ELSE first_unplayed(standings, index + 1, opponents_played)

\* while standings: the lists players and opponents the loop builds, reading
\* the match table m
RECURSIVE pair_loop(_, _, _, _, _)
pair_loop(m, standings, players, opponents, t) ==
    IF standings = <<>> THEN [players |-> players, opponents |-> opponents]
    ELSE LET player == Head(standings)
             rest == Tail(standings)
             opponents_played == player_opponents(m, player[1], t)
             index == first_unplayed(rest, 1, opponents_played)
         IN  IF index # 0
                THEN pair_loop(m, pop(rest, index), Append(players, player),
                               Append(opponents, rest[index]), t)
                ELSE pair_loop(m, rest, Append(players, player), opponents, t)

\* zip(players, opponents), each matchup as player + opponent
zip_pairings(players, opponents) ==
    LET n == IF Len(players) < Len(opponents) THEN Len(players) ELSE Len(opponents)
    IN  [k \in 1..n |-> players[k] \o opponents[k]]

\* standings = [standing[:2] for standing in standings]
id_and_name(standings) ==
    [k \in 1..Len(standings) |-> <<standings[k][1], standings[k][2]>>]

\* what a swiss_pairings call leaves in sp: what it read, what it built and
\* what it returned (pairings); pre holds the tables as they were at the call
swiss_pairings(t, fetched) ==
    \E ranked \in {rank_by_opponent_match_wins(fetched, t)} :
    \E standings \in {id_and_name(ranked)} :
    \E index \in {IF Len(standings) % 2 # 0
                     THEN bye_index(standings, Len(standings), t) ELSE 0} :
    \E pool \in {IF index # 0 THEN pop(standings, index) ELSE standings} :
        /\ IF index # 0
              THEN report_match_bye(standings[index][1], t)
              ELSE UNCHANGED <<wins, matches, entrant, match>>
        /\ \E paired \in {pair_loop(match', pool, <<>>, <<>>, t)} :
               sp' = [op |-> "swiss_pairings",
                      tournament |-> t,
                      ranked |-> ranked,
                      bye |-> IF index # 0 THEN standings[index][1] ELSE 0,
                      pool |-> pool,
                      players |-> paired.players,
                      opponents |-> paired.opponents,
                      pairings |-> zip_pairings(paired.players, paired.opponents),
                      pre |-> [wins |-> wins, matches |-> matches,
                               entrant |-> entrant, match |-> match]]

(***************************************************************************)
(* The state after registration: n players, each an entrant of the         *)
(* tournament, nobody has played.                                          *)
(***************************************************************************)
Init ==
    \E n \in 0..MaxPlayers :
        /\ wins = [p \in 1..n |-> 0]
        /\ matches = [p \in 1..n |-> 0]
        /\ entrant = {[player_id |-> p, tournament_id |-> t, bye |-> FALSE] :
                        p \in 1..n, t \in {1}}
        /\ match = EmptyBag
        /\ sp = NoCall
        /\ pc = Idle

\* a call of report_match for two distinct entrants of a tournament, while
\* the match table has room for its two rows
ReportMatch ==
    /\ row_count(match) + 2 <= MaxRows
    /\ \E t \in Tournaments : \E winner, loser \in entrants_of(t) : \E tie \in BOOLEAN :
        /\ winner # loser
        /\ report_match(winner, loser, t, tie)
        /\ sp' = NoCall
        /\ UNCHANGED pc

\* a call of report_match_bye for an entrant, with or without a bye already
ReportMatchBye ==
    /\ row_count(match) + 1 <= MaxRows
    /\ \E t \in Tournaments : \E player \in entrants_of(t) :
        /\ report_match_bye(player, t)
        /\ sp' = NoCall
        /\ UNCHANGED pc

\* a call of swiss_pairings, for every order in which the store may return
\* the standings; a call that records a bye needs room for its row
SwissPairings ==
    \E t \in Tournaments :
        /\ (/\ Cardinality(entrants_of(t)) % 2 # 0
            /\ \E p \in entrants_of(t) : ~player_has_received_bye(entrant, p, t))
              => row_count(match) + 1 <= MaxRows
        /\ \E fetched \in player_standings_by_tournament(t) :
              swiss_pairings(t, fetched)
        /\ UNCHANGED pc

Next == ReportMatch \/ ReportMatchBye \/ SwissPairings

\* the program when byes are granted by swiss_pairings only
NextEngine == ReportMatch \/ SwissPairings

SpecEngine == Init /\ [][NextEngine]_vars

Spec == Init /\ [][Next]_vars

(***************************************************************************)
(* Two tournaments: every player is an entrant of the first, the first k   *)
(* players are entrants of the second as well.  wins and matches are       *)
(* columns of the table player, one counter per player for all the         *)
(* tournaments it plays in.                                                *)
(***************************************************************************)
InitTwo ==
    \E n \in 1..MaxTwoPlayers : \E k \in 1..n :
        /\ wins = [p \in 1..n |-> 0]
        /\ matches = [p \in 1..n |-> 0]
        /\ entrant = {[player_id |-> p, tournament_id |-> 1, bye |-> FALSE] : p \in 1..n}
                        \cup
                     {[player_id |-> p, tournament_id |-> 2, bye |-> FALSE] : p \in 1..k}
        /\ match = EmptyBag
        /\ sp = NoCall
        /\ pc = Idle

SpecTwo == InitTwo /\ [][Next]_vars

(***************************************************************************)
(* report_match and report_match_bye, one run_query at a time.             *)
(*                                                                         *)
(* The players of the table player need not all be entrants here.  The     *)
(* schema of the tables is not part of the sources modelled, so whether    *)
(* the store accepts a match row of a player who is no entrant of the      *)
(* tournament is left open: the INSERT is either done or raises.           *)
(***************************************************************************)
InitSteps ==
    \E n \in 0..MaxPlayers : \E k \in 0..n :
        /\ wins = [p \in 1..n |-> 0]
        /\ matches = [p \in 1..n |-> 0]
        /\ entrant = {[player_id |-> p, tournament_id |-> t, bye |-> FALSE] :
                        p \in 1..k, t \in {1}}
        /\ match = EmptyBag
        /\ sp = NoCall
        /\ pc = Idle

\* the call moves on to its statement stmt
goto(stmt) == pc' = [pc EXCEPT !.stmt = stmt]

\* the call returns
return == pc' = Idle

\* report_match(winner, loser, tournament, tie) is called
CallReportMatch ==
    /\ pc = Idle
    /\ row_count(match) + 2 <= MaxStepRows
    /\ \E t \in Tournaments : \E winner, loser \in Players : \E tie \in BOOLEAN :
        /\ winner # loser
        /\ pc' = [op |-> "report_match", stmt |-> 1, winner |-> winner,
                  loser |-> loser, tournament |-> t, tie |-> tie]
    /\ UNCHANGED <<wins, matches, entrant, match, sp>>

\* the first INSERT: the row of the winner, under a new id
InsertWinnerRow ==
    /\ pc.op = "report_match" /\ pc.stmt = 1
    /\ match' = match (+) SetToBag({{match_row(pc.winner, pc.tournament,
                                               IF pc.tie THEN TIE ELSE WIN)}})
    /\ goto(2)
    /\ UNCHANGED <<wins, matches, entrant, sp>>

\* the second INSERT: the row of the loser, under the id of the first
InsertLoserRow ==
    /\ pc.op = "report_match" /\ pc.stmt = 2
    /\ match' = (match (-) SetToBag({{match_row(pc.winner, pc.tournament,
                                                 IF pc.tie THEN TIE ELSE WIN)}}))
                    (+) SetToBag({{match_row(pc.winner, pc.tournament,
                                             IF pc.tie THEN TIE ELSE WIN),
                                   match_row(pc.loser, pc.tournament,
                                             IF pc.tie THEN TIE ELSE LOSS)}})
    /\ goto(3)
    /\ UNCHANGED <<wins, matches, entrant, sp>>

\* update_matches_played([winner, loser])
UpdateMatchesPlayed ==
    /\ pc.op = "report_match" /\ pc.stmt = 3
    /\ matches' = update_matches_played(matches, {pc.winner, pc.loser})
    /\ goto(4)
    /\ UNCHANGED <<wins, entrant, match, sp>>

\* update_match_wins(winner); the call returns unless the match is a tie
UpdateWinnerWins ==
    /\ pc.op = "report_match" /\ pc.stmt = 4
    /\ wins' = update_match_wins(wins, pc.winner)
    /\ IF pc.tie THEN goto(5) ELSE return
    /\ UNCHANGED <<matches, entrant, match, sp>>

\* if tie: update_match_wins(loser)
UpdateLoserWins ==
    /\ pc.op = "report_match" /\ pc.stmt = 5
    /\ wins' = update_match_wins(wins, pc.loser)
    /\ return
    /\ UNCHANGED <<matches, entrant, match, sp>>

\* report_match_bye(player, tournament) is called
CallReportMatchBye ==
    /\ pc = Idle
    /\ row_count(match) + 1 <= MaxStepRows
    /\ \E t \in Tournaments : \E player \in Players :
        pc' = [op |-> "report_match_bye", stmt |-> 1, player |-> player,
               tournament |-> t]
    /\ UNCHANGED <<wins, matches, entrant, match, sp>>

\* UPDATE entrant SET bye = TRUE
SetByeFlag ==
    /\ pc.op = "report_match_bye" /\ pc.stmt = 1
    /\ entrant' = set_bye(entrant, pc.player, pc.tournament)
    /\ goto(2)
    /\ UNCHANGED <<wins, matches, match, sp>>

\* the INSERT of the BYE row
InsertByeRow ==
    /\ pc.op = "report_match_bye" /\ pc.stmt = 2
    /\ match' = insert_bye(match, pc.player, pc.tournament)
    /\ goto(3)
    /\ UNCHANGED <<wins, matches, entrant, sp>>

\* update_matches_played([player])
UpdateByeMatches ==
    /\ pc.op = "report_match_bye" /\ pc.stmt = 3
    /\ matches' = update_matches_played(matches, {pc.player})
    /\ goto(4)
    /\ UNCHANGED <<wins, entrant, match, sp>>

\* update_match_wins(player), and the call returns
UpdateByeWins ==
    /\ pc.op = "report_match_bye" /\ pc.stmt = 4
    /\ wins' = update_match_wins(wins, pc.player)
    /\ return
    /\ UNCHANGED <<matches, entrant, match, sp>>

\* the player whose row the INSERT about to run holds, 0 when the next
\* statement is no INSERT
inserting ==
    IF pc.op = "report_match" /\ pc.stmt = 1 THEN pc.winner
    ELSE IF pc.op = "report_match" /\ pc.stmt = 2 THEN pc.loser
    ELSE IF pc.op = "report_match_bye" /\ pc.stmt = 2 THEN pc.player
    ELSE 0

\* the store refuses the row of a player who is no entrant: execute raises,
\* nothing of the statement is written and the call ends there
InsertRefused ==
    /\ inserting # 0
    /\ inserting \notin entrants_of(pc.tournament)
    /\ return
    /\ UNCHANGED <<wins, matches, entrant, match, sp>>

\* the call ends between two statements (connect() raises, the process is
\* stopped): what the statements before have committed stays
Interrupted ==
    /\ pc # Idle
    /\ pc.stmt > 1
    /\ return
    /\ UNCHANGED <<wins, matches, entrant, match, sp>>

NextSteps ==
    \/ CallReportMatch \/ InsertWinnerRow \/ InsertLoserRow
    \/ UpdateMatchesPlayed \/ UpdateWinnerWins \/ UpdateLoserWins
    \/ CallReportMatchBye \/ SetByeFlag \/ InsertByeRow
    \/ UpdateByeMatches \/ UpdateByeWins
    \/ InsertRefused \/ Interrupted

SpecSteps == InitSteps /\ [][NextSteps]_vars

(***************************************************************************)
(* What the properties below speak of, stated from the tables alone.       *)
(***************************************************************************)
\* a swiss_pairings call has returned and nothing was written since
Returned == sp.op = "swiss_pairings"

\* the number of rows of the groups gs in the bag m, counted with repetition
RECURSIVE copies(_, _)
copies(m, gs) ==
    IF gs = {} THEN 0
    ELSE LET g == CHOOSE x \in gs : TRUE
         IN  CopiesIn(g, m) + copies(m, gs \ {g})

\* the number of BYE rows of player p in tournament t
ByeRows(m, p, t) == copies(m, {g \in BagToSet(m) : match_row(p, t, BYE) \in g})

\* the players p has faced in a non-bye match of tournament t
OpponentsOf(m, p, t) ==
    {q \in Players \ {p} :
        \E g \in BagToSet(m) : \E r1, r2 \in g :
            /\ r1.player_id = p /\ r1.tournament_id = t /\ r1.result_id # BYE
            /\ r2.player_id = q}

\* the sum of the wins w of the players p has faced in tournament t
RECURSIVE SumOver(_, _)
SumOver(w, ids) ==
    IF ids = {} THEN 0
    ELSE LET q == CHOOSE x \in ids : TRUE IN w[q] + SumOver(w, ids \ {q})

OpponentMatchWins(m, w, p, t) == SumOver(w, OpponentsOf(m, p, t))

HadBye(e, p, t) == \E x \in e : x.player_id = p /\ x.tournament_id = t /\ x.bye

\* the ids in the pairs a call returned
PairedIds == UNION {{sp.pairings[k][1], sp.pairings[k][3]} : k \in DOMAIN sp.pairings}

(***************************************************************************)
(* C1  swiss_pairings never returns a pair of players who had already      *)
(* faced each other in the tournament when it was called.                  *)
(***************************************************************************)
C1_NoRematchReturned ==
    Returned =>
        \A k \in DOMAIN sp.pairings :
            sp.pairings[k][3] \notin
                OpponentsOf(sp.pre.match, sp.pairings[k][1], sp.tournament)

(***************************************************************************)
(* C2  With N entrants swiss_pairings returns exactly N div 2 pairs, and   *)
(* when N is odd the call recorded exactly one bye: one more BYE row and   *)
(* one more flag.                                                          *)
(***************************************************************************)
C2_PairCountAndBye ==
    Returned =>
        LET t == sp.tournament
            ids == entrants_of(t)
            n == Cardinality(ids)
        IN  /\ Len(sp.pairings) = n \div 2
            /\ n % 2 # 0 =>
                 /\ BagCardinality(match) = BagCardinality(sp.pre.match) + 1
                 /\ \E p \in ids :
                       /\ ByeRows(match, p, t) = ByeRows(sp.pre.match, p, t) + 1
                       /\ ~HadBye(sp.pre.entrant, p, t) /\ HadBye(entrant, p, t)
                       /\ \A q \in ids \ {p} :
                             HadBye(entrant, q, t) = HadBye(sp.pre.entrant, q, t)

(***************************************************************************)
(* C3  A step that records the match of distinct entrants W and L (it adds *)
(* their two rows to the match table) adds 1 to matches of W and of L,     *)
(* adds 1 to wins of W, and adds 1 to wins of L when the match is a tie    *)
(* and nothing when it is not.                                             *)
(***************************************************************************)
C3_ReportMatchCounters ==
    [][LET added == {r.player_id : r \in UNION BagToSet(match' (-) match)}
       IN  \A t \in Tournaments : \A W, L \in added \cap entrants_of(t) :
           \A tie \in BOOLEAN :
              (W # L /\ match' = insert_match(match, W, L, t, tie)) =>
                  /\ matches'[W] = matches[W] + 1
                  /\ matches'[L] = matches[L] + 1
                  /\ wins'[W] = wins[W] + 1
                  /\ wins'[L] = IF tie THEN wins[L] + 1 ELSE wins[L]]_vars

\* a win and a tie have both been recorded
C3_Witness ==
    \E t \in Tournaments : \E W, L, A, B \in entrants_of(t) :
        /\ W # L /\ A # B
        /\ BagIn({match_row(W, t, WIN), match_row(L, t, LOSS)}, match)
        /\ BagIn({match_row(A, t, TIE), match_row(B, t, TIE)}, match)

(***************************************************************************)
(* C4  A step that records a bye for an entrant P without one (it sets P's *)
(* flag or adds a BYE row of P) sets the flag, adds exactly one row to the *)
(* match table, a BYE row of P that gives P no opponent, and adds 1 to     *)
(* wins and to matches of P.                                               *)
(***************************************************************************)
C4_ReportByeEffects ==
    [][\A t \in Tournaments : \A P \in entrants_of(t) :
          (/\ ~HadBye(entrant, P, t)
           /\ \/ HadBye(entrant', P, t)
              \/ ByeRows(match', P, t) # ByeRows(match, P, t)) =>
              /\ HadBye(entrant', P, t)
              /\ ByeRows(match', P, t) = ByeRows(match, P, t) + 1
              /\ row_count(match') = row_count(match) + 1
              /\ OpponentsOf(match', P, t) = OpponentsOf(match, P, t)
              /\ wins'[P] = wins[P] + 1
              /\ matches'[P] = matches[P] + 1]_vars

\* a bye has been recorded for a player who has also played a match
C4_Witness ==
    \E t \in Tournaments : \E P \in entrants_of(t) :
        /\ HadBye(entrant, P, t)
        /\ ByeRows(match, P, t) = 1
        /\ OpponentsOf(match, P, t) # {}
        /\ matches[P] = 2

(***************************************************************************)
(* C5  Once P's flag is set no call records a bye for P again: the number  *)
(* of BYE rows of P stays, and wins and matches of P do not grow by a bye. *)
(***************************************************************************)
C5_SecondByeRejected ==
    [][\A t \in Tournaments : \A P \in entrants_of(t) :
          HadBye(entrant, P, t) =>
              ByeRows(match', P, t) = ByeRows(match, P, t)]_vars

(***************************************************************************)
(* C6  When byes are granted by swiss_pairings only, no entrant ever has   *)
(* more than one BYE row in a tournament, and a flag that is set stays set.*)
(***************************************************************************)
C6_AtMostOneBye ==
    [][\A t \in Tournaments : \A P \in entrants_of(t) :
          /\ ByeRows(match, P, t) <= 1
          /\ ByeRows(match', P, t) <= 1
          /\ HadBye(entrant, P, t) => HadBye(entrant', P, t)]_vars

\* a call returned that found a player with a bye and granted another one
C6_Witness ==
    /\ Returned
    /\ sp.bye # 0
    /\ \E p \in entrants_of(sp.tournament) : HadBye(sp.pre.entrant, p, sp.tournament)

(***************************************************************************)
(* C7  With an odd number of entrants of which one has no bye yet, the     *)
(* call grants the bye to the last player of the ranked list that has no   *)
(* bye; that player is in no returned pair, and the players who had a bye  *)
(* are all in the pool that is paired.                                     *)
(***************************************************************************)
C7_ByeToLowestRanked ==
    LET t == sp.tournament
        n == Len(sp.ranked)
        free == {k \in 1..n : ~HadBye(sp.pre.entrant, sp.ranked[k][1], t)}
    IN  (Returned /\ n % 2 # 0 /\ free # {}) =>
            LET last == CHOOSE k \in free : \A j \in free : j <= k
                P == sp.ranked[last][1]
            IN  /\ sp.bye = P
                /\ HadBye(entrant, P, t)
                /\ ByeRows(match, P, t) = ByeRows(sp.pre.match, P, t) + 1
                /\ P \notin PairedIds
                /\ \A k \in 1..Len(sp.pool) : sp.pool[k][1] # P
                /\ \A k \in 1..n :
                      HadBye(sp.pre.entrant, sp.ranked[k][1], t) =>
                          \E j \in 1..Len(sp.pool) : sp.pool[j] = id_and_name(sp.ranked)[k]

\* the bye went to a player above the last of the ranked list, who had one
C7_Witness ==
    /\ Returned
    /\ Len(sp.ranked) % 2 # 0
    /\ sp.bye # 0
    /\ HadBye(sp.pre.entrant, sp.ranked[Len(sp.ranked)][1], sp.tournament)
    /\ sp.pairings # <<>>

(***************************************************************************)
(* C8  swiss_pairings returns no pairing list when a player it dequeued    *)
(* had already faced every candidate left in the pool: the call fails      *)
(* instead of leaving the player out or pairing it with another's choice.  *)
(***************************************************************************)
\* the players the greedy pairing of pool dequeues while candidates are left
\* and all of them are players it has faced
RECURSIVE Stranded(_, _, _)
Stranded(m, pool, t) ==
    IF pool = <<>> THEN {}
    ELSE LET player == Head(pool)
             rest == Tail(pool)
             legal == {k \in 1..Len(rest) :
                          rest[k][1] \notin OpponentsOf(m, player[1], t)}
         IN  IF legal = {}
                THEN (IF rest # <<>> THEN {player[1]} ELSE {})
                        \cup Stranded(m, rest, t)
                ELSE Stranded(m, pop(rest, CHOOSE k \in legal : \A j \in legal : k <= j), t)

C8_NoReturnWithStrandedPlayer ==
    Returned => Stranded(sp.pre.match, sp.pool, sp.tournament) = {}

(***************************************************************************)
(* C9  swiss_pairings returns no pairing list for an odd number of         *)
(* entrants who all have a bye already.                                    *)
(***************************************************************************)
C9_NoReturnWhenAllByed ==
    Returned =>
        ~(/\ Len(sp.ranked) % 2 # 0
          /\ \A k \in 1..Len(sp.ranked) :
                HadBye(sp.pre.entrant, sp.ranked[k][1], sp.tournament))

(***************************************************************************)
(* C10  The ranked standings are a permutation of the standings fetched    *)
(* (one row per entrant, with its wins and matches at the call), still in  *)
(* descending order of wins, and of two players with equal wins the one    *)
(* with the strictly greater opponent-match-wins comes first, the          *)
(* opponent-match-wins of P being the sum of the wins of the players P has *)
(* faced in non-bye matches of the tournament (0 when there is none).      *)
(***************************************************************************)
C10_RankedByOpponentMatchWins ==
    Returned =>
        LET t == sp.tournament
            r == sp.ranked
            n == Len(r)
            ids == entrants_of(t)
            omw(k) == OpponentMatchWins(sp.pre.match, sp.pre.wins, r[k][1], t)
        IN  /\ n = Cardinality(ids)
            /\ \A p \in ids : \E k \in 1..n :
                  r[k] = <<p, Names[p], sp.pre.wins[p], sp.pre.matches[p]>>
            /\ \A i, j \in 1..n : i < j => r[i][3] >= r[j][3]
            /\ \A i, j \in 1..n : (i < j /\ r[i][3] = r[j][3]) => omw(i) >= omw(j)

\* a call ranked two players of equal wins and different opponent-match-wins,
\* below a player with more wins
C10_Witness ==
    /\ Returned
    /\ \E h, i, j \in 1..Len(sp.ranked) :
          /\ h < i /\ i < j
          /\ sp.ranked[h][3] > sp.ranked[i][3]
          /\ sp.ranked[i][3] = sp.ranked[j][3]
          /\ OpponentMatchWins(sp.pre.match, sp.pre.wins, sp.ranked[i][1], sp.tournament)
                > OpponentMatchWins(sp.pre.match, sp.pre.wins, sp.ranked[j][1], sp.tournament)

\* the number of rows of player p, over all tournaments, whose result is one
\* of kinds (a match id never holds two rows of one player)
RowsOf(m, p, kinds) ==
    copies(m, {g \in BagToSet(m) :
                  \E r \in g : r.player_id = p /\ r.result_id \in kinds})

\* the counters of every player are those of the rows of the table match
CountersMatchRows ==
    \A p \in Players :
        /\ wins[p] = RowsOf(match, p, {WIN, TIE, BYE})
        /\ matches[p] = RowsOf(match, p, {WIN, LOSS, TIE, BYE})

(***************************************************************************)
(* C11: report_match and report_match_bye are all-or-nothing: when no call *)
(* is in progress, whether the last one returned, raised or was stopped    *)
(* between two statements, nothing of a half-done call is in the store:    *)
(* every match id without a BYE row holds exactly two rows, the counters   *)
(* of every player are those of the rows, and a bye flag that is set has   *)
(* its BYE row.                                                            *)
(***************************************************************************)
C11_AllOrNothing ==
    pc = Idle =>
        /\ \A g \in BagToSet(match) :
              (\E r \in g : r.result_id = BYE) \/ Cardinality(g) = 2
        /\ CountersMatchRows
        /\ \A p \in Players : \A t \in Tournaments :
              HadBye(entrant, p, t) => ByeRows(match, p, t) >= 1

(***************************************************************************)
(* C12: a report_match call whose winner or loser is no entrant of the     *)
(* tournament fails without a write: no step of it inserts a match row or  *)
(* changes a counter.                                                      *)
(***************************************************************************)
C12_NonEntrantNothingWritten ==
    [][(/\ pc.op = "report_match"
        /\ \/ pc.winner \notin entrants_of(pc.tournament)
           \/ pc.loser \notin entrants_of(pc.tournament))
       => /\ match' = match
          /\ wins' = wins
          /\ matches' = matches]_vars

\* the players of the pool not in one of the first n returned pairs, in
\* ranked order
Unpaired(n) ==
    LET used == UNION {{sp.pairings[j][1], sp.pairings[j][3]} : j \in 1..n}
    IN  SelectSeq(sp.pool, LAMBDA s : s[1] \notin used)

(***************************************************************************)
(* C13: the pairs swiss_pairings returns are the greedy ones, in the order *)
(* their first player was dequeued: the k-th pair is the highest-ranked    *)
(* player of the pool (the ranked list after the bye step) not in an       *)
(* earlier pair, with the highest-ranked other player not in an earlier    *)
(* pair whom that player has not faced in the tournament, as               *)
(* (id, name, opponent_id, opponent_name).                                 *)
(***************************************************************************)
C13_GreedyPairsInRankOrder ==
    Returned =>
        \A k \in DOMAIN sp.pairings :
            LET left == Unpaired(k - 1)
                legal == {i \in 2..Len(left) :
                             left[i][1] \notin
                                 OpponentsOf(sp.pre.match, left[1][1], sp.tournament)}
            IN  /\ legal # {}
                /\ sp.pairings[k] =
                      left[1] \o left[CHOOSE i \in legal : \A j \in legal : i <= j]

(***************************************************************************)
(* C14: with calls of report_match (winner and loser distinct),            *)
(* report_match_bye and swiss_pairings that run to their end, the wins of  *)
(* every player are the number of its WIN, TIE and BYE rows over all       *)
(* tournaments and its matches the number of all its rows, before and      *)
(* after every call; and a call changes the counters of no player but      *)
(* those it writes a row for.                                              *)
(***************************************************************************)
C14_CountersCountRows ==
    [][/\ CountersMatchRows
       /\ CountersMatchRows'
       /\ \A p \in Players :
             RowsOf(match', p, {WIN, LOSS, TIE, BYE})
                 = RowsOf(match, p, {WIN, LOSS, TIE, BYE})
             => (wins'[p] = wins[p] /\ matches'[p] = matches[p])]_vars

\* a player of two tournaments holds a WIN row and a TIE row in one and, in
\* the other, the BYE row swiss_pairings has just recorded, next to a player
\* with a LOSS row
C14_Witness ==
    /\ Returned
    /\ sp.bye # 0
    /\ \E g \in BagToSet(match) : match_row(sp.bye, sp.tournament, BYE) \in g
    /\ \E g, h \in BagToSet(match) : \E r \in g : \E q \in h :
          /\ r.player_id = sp.bye /\ q.player_id = sp.bye
          /\ r.result_id = WIN /\ q.result_id = TIE
          /\ r.tournament_id # sp.tournament /\ q.tournament_id # sp.tournament
    /\ \E p \in Players : RowsOf(match, p, {LOSS}) >= 1
    /\ wins[sp.bye] = 3
    /\ matches[sp.bye] = 3
====
